---- MODULE Spec2Model ----
(***************************************************************************)
(* Model of the MAX17262 fuel-gauge driver, scripts/libraries/max17262.py. *)
(*                                                                         *)
(* The driver talks to the IC over a register bus (i2c.readfrom_mem and    *)
(* i2c.writeto_mem, two bytes per register).  The constructor polls the    *)
(* flag-status register, writes three configuration registers and polls    *)
(* the model-configuration register; seven accessors read one register     *)
(* each and scale it.  Every bus transaction and every sleep_ms of the     *)
(* constructor is one step of the model; an accessor call is one step.     *)
(*                                                                         *)
(* Floating-point factors are kept as exact fractions <<num, den>>, and a  *)
(* value raw * factor as the fraction <<raw * num, den>>.                  *)
(***************************************************************************)
EXTENDS Integers, Sequences, FiniteSets, TLC

VARIABLES
    pc,                 \* position of the program (constructor line, "ready", "failed")
    error,              \* the exception that ended the constructor, or "none"
    address,            \* self.address
    is_r_type,          \* self.is_r_type
    capacity,           \* constructor argument, mAh
    terminationCurrent, \* constructor argument, uA
    lowVoltage,         \* constructor argument
    cap,                \* local of __init__: raw design capacity
    cur,                \* local of __init__: raw termination current
    regs,               \* the IC's registers, as the two bytes on the wire
    dnrTicks,           \* 10 ms periods until the IC clears FStat.DNR (Stuck: never)
    refreshTicks,       \* 10 ms periods the IC takes to clear ModelCfg bit 15
    packChecks,         \* whether this build's struct.pack rejects out-of-range values
    bus,                \* history: the bus transactions and sleeps of the constructor
    last,               \* history: the latest accessor call
    cstage,             \* codec exercise: "in", "packed", "unpacked"
    cv,                 \* codec exercise: the value given to pack
    cfmt,               \* codec exercise: the format given to pack
    cbytes,             \* codec exercise: the bytes pack produced
    cdec                \* codec exercise: what unpack "<H" and "<h" give for cbytes

vars == <<pc, error, address, is_r_type, capacity, terminationCurrent, lowVoltage,
          cap, cur, regs, dnrTicks, refreshTicks, packChecks, bus, last,
          cstage, cv, cfmt, cbytes, cdec>>

driverVars == <<pc, error, address, is_r_type, capacity, terminationCurrent,
                lowVoltage, cap, cur, regs, dnrTicks, refreshTicks, packChecks,
                bus, last>>

codecVars == <<cstage, cv, cfmt, cbytes, cdec>>

----------------------------------------------------------------------------
(* Bounds of the model *)

\* The IC clears an awaited bit within MaxTicks sleeps of 10 ms (when it does at all).
MaxTicks == 2

\* The history keeps at most MaxLog entries: enough for every construction under
\* an IC that answers within MaxTicks; later entries (a stuck IC's) are dropped.
MaxLog == 4 * MaxTicks + 8

\* dnrTicks / refreshTicks of an IC that never clears the bit
Stuck == 0 - 1

----------------------------------------------------------------------------
(* Constants of max17262.py *)

DEVICE_ADDRESS == 54
REG_DesignCap == 24
REG_ModelCfg == 219
REG_IChgTerm == 30
REG_FStat == 61
REG_RepCap == 5
REG_RepSOC == 6
REG_TTE == 17
REG_TTF == 32
REG_VCell == 9
REG_Current == 10
REG_DieTemp == 52

LSB_PERCENTAGE == <<1, 256>>
LSB_VOLTAGE == <<5, 64>>
LSB_TEMPERATURE == <<1, 256>>
LSB_TIME == <<45, 8>>
LSB_CAPACITY_R == <<1, 2>>
LSB_CAPACITY_H == <<1667, 10000>>
LSB_CURRENT_R == <<625, 4>>
LSB_CURRENT_H == <<52083, 1000>>

SLEEP_MS == 10

----------------------------------------------------------------------------
(* struct.pack / struct.unpack, formats "<H" and "<h" *)

Bytes == 0..255

\* the two little-endian bytes of the 16-bit pattern u, 0 <= u < 65536
LittleEndian(u) == <<u % 256, u \div 256>>

InRange(fmt, v) ==
    IF fmt = "<H" THEN v >= 0 /\ v <= 65535 ELSE v >= -32768 /\ v <= 32767

\* pack(fmt, v): the bytes, or PackError where the build rejects a value that does
\* not fit; a build that does not check keeps the low 16 bits.
PackError == <<>>

pack(fmt, v, checks) ==
    IF InRange(fmt, v) \/ ~checks THEN LittleEndian(v % 65536) ELSE PackError

\* a variant of unpack: the first byte taken as the high byte
unpack_big_endian(fmt, data) ==
    LET u == 256 * data[1] + data[2]
    IN  IF fmt = "<h" /\ u >= 32768 THEN u - 65536 ELSE u

\* unpack(fmt, data)[0]
unpack(fmt, data) ==
    LET u == data[1] + 256 * data[2]
    IN  IF fmt = "<h" /\ u >= 32768 THEN u - 65536 ELSE u

\* a variant of ModelCfgBytes: the literals with their bytes in the other order
ModelCfgBytes_swapped(low) == IF low THEN <<128, 0>> ELSE <<132, 0>>

\* the two bytes of the literals b"\x00\x80" and b"\x00\x84"
ModelCfgBytes(low) == IF low THEN <<0, 128>> ELSE <<0, 132>>

----------------------------------------------------------------------------
(* Arithmetic of __init__ and of the accessors *)

\* int(x / f) for an integer x and the factor f = <<num, den>>: the quotient
\* x * den / num truncated toward zero (taken in two parts, which keeps the
\* products small)
ToRaw(x, f) ==
    LET n == IF x >= 0 THEN x ELSE -x
        q == (n \div f[1]) * f[2] + ((n % f[1]) * f[2]) \div f[1]
    IN  IF x >= 0 THEN q ELSE -q

\* raw * f as a fraction
Scale(raw, f) == <<raw * f[1], f[2]>>

BitSet(word, mask) == (word \div mask) % 2 = 1

----------------------------------------------------------------------------
(* The history of bus transactions *)

ReadOk(reg, data) == [op |-> "read", dev |-> address, reg |-> reg, data |-> data, ok |-> TRUE]
ReadFail(reg) == [op |-> "read", dev |-> address, reg |-> reg, data |-> <<>>, ok |-> FALSE]
WriteOk(reg, data) == [op |-> "write", dev |-> address, reg |-> reg, data |-> data, ok |-> TRUE]
WriteFail(reg, data) == [op |-> "write", dev |-> address, reg |-> reg, data |-> data, ok |-> FALSE]
Slept(ms) == [op |-> "sleep", dev |-> address, reg |-> 0, data |-> <<ms>>, ok |-> TRUE]

Log(e) == IF Len(bus) < MaxLog THEN Append(bus, e) ELSE bus

NoCall == [call |-> "none", bus |-> <<>>, ok |-> TRUE, result |-> <<>>]

----------------------------------------------------------------------------
(* The IC *)

\* the register's bytes with bit 0 / bit 15 of the word cleared
ClearBit0(data) == <<data[1] - (data[1] % 2), data[2]>>
ClearBit15(data) == <<data[1], data[2] % 128>>

\* one 10 ms period passes
Tick(t) == IF t > 0 THEN t - 1 ELSE t

----------------------------------------------------------------------------
(* Inputs *)

Capacities == {340, -1, 40000}
Currents == {50000, -50000, 12000000}
Addresses == {DEVICE_ADDRESS, DEVICE_ADDRESS + 1}
\* the bits of FStat other than DNR: some are set (here bits 9 and 15)
FStatOther == {33280}
\* words the IC reports in its measurement registers
SampleWords == {680, 25600, 32768, 65136, 65535}

CodecIdle ==
    /\ cstage = "off"
    /\ cv = 0
    /\ cfmt = "<H"
    /\ cbytes = <<>>
    /\ cdec = [u |-> 0, s |-> 0]

\* the state on entry to the polling loop of __init__, lines 59-61 done
InitWith(tickSet) ==
    /\ pc = "poll_fstat"
    /\ error = "none"
    /\ address \in Addresses
    /\ is_r_type \in BOOLEAN
    /\ capacity \in Capacities
    /\ terminationCurrent \in Currents
    /\ lowVoltage \in BOOLEAN
    /\ cap = 0
    /\ cur = 0
    /\ dnrTicks \in tickSet
    /\ refreshTicks \in tickSet
    /\ packChecks \in BOOLEAN
    /\ \E other \in FStatOther :
         regs = [r \in {REG_FStat, REG_DesignCap, REG_IChgTerm, REG_ModelCfg} |->
                   IF r = REG_FStat
                   THEN LittleEndian(other + (IF dnrTicks = 0 THEN 0 ELSE 1))
                   ELSE <<0, 0>>]
    /\ bus = <<>>
    /\ last = NoCall
    /\ CodecIdle

Init == InitWith(0..MaxTicks)

InitAnyIC == InitWith(0..MaxTicks \cup {Stuck})

----------------------------------------------------------------------------
(* read_int16 / read_uint16: the decoding of the two bytes read *)

read_int16(data) == unpack("<h", data)

read_uint16(data) == unpack("<H", data)

----------------------------------------------------------------------------
(* __init__ *)

Raise(e) ==
    /\ pc' = "failed"
    /\ error' = e

\* a variant of PollFStat: the loop test inverted (leaves the loop while DNR is set)
PollFStat_inverted ==
    /\ pc = "poll_fstat"
    /\ \/ /\ bus' = Log(ReadFail(REG_FStat))
          /\ Raise("BusError")
       \/ /\ bus' = Log(ReadOk(REG_FStat, regs[REG_FStat]))
          /\ pc' = IF BitSet(read_uint16(regs[REG_FStat]), 1)
                   THEN "convert" ELSE "sleep_fstat"
          /\ error' = error
    /\ UNCHANGED <<address, is_r_type, capacity, terminationCurrent, lowVoltage,
                   cap, cur, regs, dnrTicks, refreshTicks, packChecks, last>>
    /\ UNCHANGED codecVars

\* line 65: while self.read_uint16(REG_FStat) & 0x0001
PollFStat ==
    /\ pc = "poll_fstat"
    /\ \/ /\ bus' = Log(ReadFail(REG_FStat))
          /\ Raise("BusError")
       \/ /\ bus' = Log(ReadOk(REG_FStat, regs[REG_FStat]))
          /\ pc' = IF BitSet(read_uint16(regs[REG_FStat]), 1)
                   THEN "sleep_fstat" ELSE "convert"
          /\ error' = error
    /\ UNCHANGED <<address, is_r_type, capacity, terminationCurrent, lowVoltage,
                   cap, cur, regs, dnrTicks, refreshTicks, packChecks, last>>
    /\ UNCHANGED codecVars

\* a variant of SleepFStat: sleeps twice
SleepFStat_twice ==
    /\ pc = "sleep_fstat"
    /\ bus' = Append(Log(Slept(SLEEP_MS)), Slept(SLEEP_MS))
    /\ dnrTicks' = Tick(Tick(dnrTicks))
    /\ regs' = IF dnrTicks' = 0
               THEN [regs EXCEPT ![REG_FStat] = ClearBit0(@)]
               ELSE regs
    /\ pc' = "poll_fstat"
    /\ UNCHANGED <<error, address, is_r_type, capacity, terminationCurrent,
                   lowVoltage, cap, cur, refreshTicks, packChecks, last>>
    /\ UNCHANGED codecVars

\* line 66: sleep_ms(10); meanwhile the IC may become ready
SleepFStat ==
    /\ pc = "sleep_fstat"
    /\ bus' = Log(Slept(SLEEP_MS))
    /\ dnrTicks' = Tick(dnrTicks)
    /\ regs' = IF dnrTicks' = 0
               THEN [regs EXCEPT ![REG_FStat] = ClearBit0(@)]
               ELSE regs
    /\ pc' = "poll_fstat"
    /\ UNCHANGED <<error, address, is_r_type, capacity, terminationCurrent,
                   lowVoltage, cap, cur, refreshTicks, packChecks, last>>
    /\ UNCHANGED codecVars

\* lines 68-73
Convert ==
    /\ pc = "convert"
    /\ cap' = IF is_r_type THEN ToRaw(capacity, LSB_CAPACITY_R)
                           ELSE ToRaw(capacity, LSB_CAPACITY_H)
    /\ cur' = IF is_r_type THEN ToRaw(terminationCurrent, LSB_CURRENT_R)
                           ELSE ToRaw(terminationCurrent, LSB_CURRENT_H)
    /\ pc' = "write_cap"
    /\ UNCHANGED <<error, address, is_r_type, capacity, terminationCurrent,
                   lowVoltage, regs, dnrTicks, refreshTicks, packChecks, bus, last>>
    /\ UNCHANGED codecVars

\* self.i2c.writeto_mem(self.address, reg, data), then continue at `next`;
\* data = PackError: pack raised while the argument was evaluated
WriteReg(reg, data, next) ==
    /\ \/ /\ data = PackError
          /\ Raise("PackError")
          /\ UNCHANGED <<regs, bus>>
       \/ /\ data # PackError
          /\ bus' = Log(WriteFail(reg, data))
          /\ Raise("BusError")
          /\ regs' = regs
       \/ /\ data # PackError
          /\ bus' = Log(WriteOk(reg, data))
          /\ regs' = [regs EXCEPT ![reg] =
                        IF reg = REG_ModelCfg /\ refreshTicks = 0
                        THEN ClearBit15(data) ELSE data]
          /\ pc' = next
          /\ error' = error
    /\ UNCHANGED <<address, is_r_type, capacity, terminationCurrent, lowVoltage,
                   cap, cur, dnrTicks, refreshTicks, packChecks, last>>
    /\ UNCHANGED codecVars

\* line 76
WriteDesignCap ==
    /\ pc = "write_cap"
    /\ WriteReg(REG_DesignCap, pack("<H", cap, packChecks), "write_cur")

\* line 77
WriteIChgTerm ==
    /\ pc = "write_cur"
    /\ WriteReg(REG_IChgTerm, pack("<h", cur, packChecks), "write_cfg")

\* lines 80-83
WriteModelCfg ==
    /\ pc = "write_cfg"
    /\ WriteReg(REG_ModelCfg, ModelCfgBytes(lowVoltage), "poll_cfg")

\* a variant of PollModelCfg: a failed read is tried again
PollModelCfg_retry ==
    /\ pc = "poll_cfg"
    /\ \/ /\ bus' = Log(ReadFail(REG_ModelCfg))
          /\ UNCHANGED <<pc, error>>
       \/ /\ bus' = Log(ReadOk(REG_ModelCfg, regs[REG_ModelCfg]))
          /\ pc' = IF BitSet(read_uint16(regs[REG_ModelCfg]), 32768)
                   THEN "sleep_cfg" ELSE "ready"
          /\ error' = error
    /\ UNCHANGED <<address, is_r_type, capacity, terminationCurrent, lowVoltage,
                   cap, cur, regs, dnrTicks, refreshTicks, packChecks, last>>
    /\ UNCHANGED codecVars

\* line 87: while self.read_uint16(REG_ModelCfg) & 0x8000
PollModelCfg ==
    /\ pc = "poll_cfg"
    /\ \/ /\ bus' = Log(ReadFail(REG_ModelCfg))
          /\ Raise("BusError")
       \/ /\ bus' = Log(ReadOk(REG_ModelCfg, regs[REG_ModelCfg]))
          /\ pc' = IF BitSet(read_uint16(regs[REG_ModelCfg]), 32768)
                   THEN "sleep_cfg" ELSE "ready"
          /\ error' = error
    /\ UNCHANGED <<address, is_r_type, capacity, terminationCurrent, lowVoltage,
                   cap, cur, regs, dnrTicks, refreshTicks, packChecks, last>>
    /\ UNCHANGED codecVars

\* line 88: sleep_ms(10); meanwhile the IC may finish its reset
SleepModelCfg ==
    /\ pc = "sleep_cfg"
    /\ bus' = Log(Slept(SLEEP_MS))
    /\ refreshTicks' = Tick(refreshTicks)
    /\ regs' = IF refreshTicks' = 0
               THEN [regs EXCEPT ![REG_ModelCfg] = ClearBit15(@)]
               ELSE regs
    /\ pc' = "poll_cfg"
    /\ UNCHANGED <<error, address, is_r_type, capacity, terminationCurrent,
                   lowVoltage, cap, cur, dnrTicks, packChecks, last>>
    /\ UNCHANGED codecVars

Construct ==
    \/ PollFStat
    \/ SleepFStat
    \/ Convert
    \/ WriteDesignCap
    \/ WriteIChgTerm
    \/ WriteModelCfg
    \/ PollModelCfg
    \/ SleepModelCfg

----------------------------------------------------------------------------
(* The accessors, lines 98-137: one register read, decoded and scaled *)

\* the bus read of an accessor and what it returns: the read raises, or the IC
\* answers with some word and the accessor returns read_int16 ("<h") or
\* read_uint16 ("<H") of it, times lsb
Access(name, reg, fmt, lsb) ==
    /\ pc = "ready"
    /\ \/ last' = [call |-> name, bus |-> <<ReadFail(reg)>>,
                   ok |-> FALSE, result |-> <<>>]
       \/ \E w \in SampleWords :
            LET data == LittleEndian(w)
            IN  last' = [call |-> name, bus |-> <<ReadOk(reg, data)>>,
                         ok |-> TRUE, result |-> Scale(IF fmt = "<h" THEN read_int16(data)
                                                        ELSE read_uint16(data), lsb)]
    /\ UNCHANGED <<pc, error, address, is_r_type, capacity, terminationCurrent,
                   lowVoltage, cap, cur, regs, dnrTicks, refreshTicks,
                   packChecks, bus>>
    /\ UNCHANGED codecVars

state_of_charge == Access("state_of_charge", REG_RepSOC, "<H", LSB_PERCENTAGE)

time_to_empty == Access("time_to_empty", REG_TTE, "<H", LSB_TIME)

\* a variant of time_to_full: reads the register of time_to_empty
time_to_full_wrong_register == Access("time_to_full", REG_TTE, "<H", LSB_TIME)

time_to_full == Access("time_to_full", REG_TTF, "<H", LSB_TIME)

current ==
    IF is_r_type
    THEN Access("current", REG_Current, "<h", LSB_CURRENT_R)
    ELSE Access("current", REG_Current, "<h", LSB_CURRENT_H)

voltage == Access("voltage", REG_VCell, "<H", LSB_VOLTAGE)

remaining_capacity ==
    IF is_r_type
    THEN Access("capacity", REG_RepCap, "<H", LSB_CAPACITY_R)
    ELSE Access("capacity", REG_RepCap, "<H", LSB_CAPACITY_H)

\* a variant of temperature: decodes the register as unsigned
temperature_unsigned == Access("temperature", REG_DieTemp, "<H", LSB_TEMPERATURE)

temperature == Access("temperature", REG_DieTemp, "<h", LSB_TEMPERATURE)

Accessor ==
    \/ state_of_charge
    \/ time_to_empty
    \/ time_to_full
    \/ current
    \/ voltage
    \/ remaining_capacity
    \/ temperature

----------------------------------------------------------------------------
(* The specifications of the driver *)

Next == Construct \/ Accessor

Spec == Init /\ [][Next]_vars

\* The program is single-threaded and runs on: a constructor that can take a
\* step takes it.  Any IC, also one that never clears an awaited bit.
FairSpec == InitAnyIC /\ [][Next]_vars /\ WF_vars(Construct)

----------------------------------------------------------------------------
(* The codec on its own: pack a value, unpack the bytes *)

CodecInit ==
    /\ pc = "codec"
    /\ error = "none"
    /\ address = DEVICE_ADDRESS
    /\ is_r_type = TRUE
    /\ capacity = 0
    /\ terminationCurrent = 0
    /\ lowVoltage = TRUE
    /\ cap = 0
    /\ cur = 0
    /\ dnrTicks = 0
    /\ refreshTicks = 0
    /\ packChecks = TRUE
    /\ regs = [r \in {REG_FStat, REG_DesignCap, REG_IChgTerm, REG_ModelCfg} |-> <<0, 0>>]
    /\ bus = <<>>
    /\ last = NoCall
    /\ cstage = "in"
    /\ cfmt \in {"<H", "<h"}
    /\ cv \in (IF cfmt = "<H" THEN 0..65535 ELSE -32768..32767)
    /\ cbytes = <<>>
    /\ cdec = [u |-> 0, s |-> 0]

\* lines 76-77: pack(fmt, value)
CodecPack ==
    /\ cstage = "in"
    /\ cbytes' = pack(cfmt, cv, packChecks)
    /\ cstage' = "packed"
    /\ UNCHANGED <<cv, cfmt, cdec>>
    /\ UNCHANGED driverVars

\* lines 92 and 96: unpack("<h", data)[0] and unpack("<H", data)[0]
CodecUnpack ==
    /\ cstage = "packed"
    /\ cdec' = [u |-> read_uint16(cbytes), s |-> read_int16(cbytes)]
    /\ cstage' = "unpacked"
    /\ UNCHANGED <<cv, cfmt, cbytes>>
    /\ UNCHANGED driverVars

CodecNext == CodecPack \/ CodecUnpack

CodecSpec == CodecInit /\ [][CodecNext]_vars

----------------------------------------------------------------------------
(* Reading the history *)

Ended == pc \in {"ready", "failed"}

IsRead(e, reg) == e.op = "read" /\ e.reg = reg

IsWrite(e, reg) == e.op = "write" /\ e.reg = reg

\* a read of reg that returned a word with the bit of mask clear
SawClear(e, reg, mask) ==
    IsRead(e, reg) /\ e.ok /\ ~BitSet(read_uint16(e.data), mask)

\* a read of reg that returned a word with the bit of mask set
SawSet(e, reg, mask) ==
    IsRead(e, reg) /\ e.ok /\ BitSet(read_uint16(e.data), mask)

\* the registers of the writes issued so far, in order
WrittenRegs ==
    LET w == SelectSeq(bus, LAMBDA e : e.op = "write")
    IN  [i \in 1..Len(w) |-> w[i].reg]

IsPrefix(s, t) == Len(s) <= Len(t) /\ \A i \in 1..Len(s) : s[i] = t[i]

----------------------------------------------------------------------------
(* C1 *)

\* C1: construction always terminates, whatever the IC does: it ends after a
\* bounded number of poll reads (with InitTimeout when the bound is exhausted)
\* and never polls forever.
C1_ConstructionTerminates == <>Ended

----------------------------------------------------------------------------
(* C2 *)

\* C2 as stated: the word written to the model-configuration register, read as
\* a little-endian word, is 0x0080 for lowVoltage and 0x0084 otherwise.
C2_WordIs0080or0084 ==
    \A i \in 1..Len(bus) :
        IsWrite(bus[i], REG_ModelCfg) =>
            read_uint16(bus[i].data) = (IF lowVoltage THEN 128 ELSE 132)

\* C2 amended: the word written to the model-configuration register, read as a
\* little-endian word, is 0x8000 for lowVoltage and 0x8400 otherwise (the bytes
\* on the wire are 00 80 and 00 84).
C2_WordIs8000or8400 ==
    \A i \in 1..Len(bus) :
        IsWrite(bus[i], REG_ModelCfg) =>
            /\ read_uint16(bus[i].data) = (IF lowVoltage THEN 32768 ELSE 33792)
            /\ bus[i].data = (IF lowVoltage THEN <<0, 128>> ELSE <<0, 132>>)

C2_Witness ==
    /\ ~lowVoltage
    /\ \E i \in 1..Len(bus) : IsWrite(bus[i], REG_ModelCfg) /\ bus[i].ok

----------------------------------------------------------------------------
(* C3 *)

\* C3: the order of the constructor's bus operations.  No write before a read of
\* FStat returned bit 0 clear; the writes are DesignCap, IChgTerm, ModelCfg, once
\* each in that order; ModelCfg is read only after it was written; and the
\* constructor returns only after a read of ModelCfg returned bit 15 clear.
C3_BusOrder ==
    /\ \A i \in 1..Len(bus) :
         bus[i].op = "write" =>
             \E j \in 1..(i - 1) : SawClear(bus[j], REG_FStat, 1)
    /\ IsPrefix(WrittenRegs, <<REG_DesignCap, REG_IChgTerm, REG_ModelCfg>>)
    /\ \A i \in 1..Len(bus) :
         IsRead(bus[i], REG_ModelCfg) =>
             \E j \in 1..(i - 1) : IsWrite(bus[j], REG_ModelCfg) /\ bus[j].ok
    /\ pc = "ready" =>
         /\ WrittenRegs = <<REG_DesignCap, REG_IChgTerm, REG_ModelCfg>>
         /\ \A i \in 1..Len(bus) : bus[i].ok
         /\ SawClear(bus[Len(bus)], REG_ModelCfg, 32768)

\* a construction that returned after waiting in both loops
C3_Witness ==
    /\ pc = "ready"
    /\ \E i \in 1..Len(bus) : SawSet(bus[i], REG_FStat, 1)
    /\ \E i \in 1..Len(bus) : SawSet(bus[i], REG_ModelCfg, 32768)

----------------------------------------------------------------------------
(* C4 and C8: the parameters and the raw values written *)

CapacityFactor == IF is_r_type THEN LSB_CAPACITY_R ELSE LSB_CAPACITY_H

CurrentFactor == IF is_r_type THEN LSB_CURRENT_R ELSE LSB_CURRENT_H

\* neither parameter is negative and both raw values fit a 16-bit register
ParamsEncodable ==
    /\ capacity >= 0
    /\ terminationCurrent >= 0
    /\ ToRaw(capacity, CapacityFactor) <= 65535
    /\ ToRaw(terminationCurrent, CurrentFactor) <= 65535

\* C4: with a capacity or termination current that is negative or does not fit
\* the register, construction fails with InvalidParameter and no register
\* write has been issued.
C4_InvalidParameterBeforeAnyWrite ==
    ~ParamsEncodable =>
        /\ \A i \in 1..Len(bus) : ~(bus[i].op = "write" /\ bus[i].ok)
        /\ pc # "ready"
        /\ pc = "failed" => error \in {"InvalidParameter", "BusError"}

\* C8: the word written to DesignCap is capacity / capacity factor and the word
\* written to IChgTerm is terminationCurrent / current factor, each truncated
\* toward zero, with the factors of the variant chosen at construction.
C8_WrittenRawValues ==
    \A i \in 1..Len(bus) :
        /\ IsWrite(bus[i], REG_DesignCap) /\ bus[i].ok =>
               read_uint16(bus[i].data) = ToRaw(capacity, CapacityFactor)
        /\ IsWrite(bus[i], REG_IChgTerm) /\ bus[i].ok =>
               read_int16(bus[i].data) = ToRaw(terminationCurrent, CurrentFactor)

----------------------------------------------------------------------------
(* C5, C6, C7: the accessors and bus failures *)

\* the register of each quantity
RegisterOf(call) ==
    CASE call = "state_of_charge" -> 6
      [] call = "time_to_empty" -> 17
      [] call = "time_to_full" -> 32
      [] call = "current" -> 10
      [] call = "voltage" -> 9
      [] call = "capacity" -> 5
      [] call = "temperature" -> 52

\* C5: once the driver is constructed, every step (an accessor call) issues
\* exactly one bus read, of the register of the quantity asked for, issues no
\* write, and leaves the driver's address and variant, the IC's configuration
\* registers and the record of the constructor's writes as they were.
C5_AccessorFrame ==
    [][pc = "ready" =>
          /\ pc' = "ready"
          /\ address' = address
          /\ is_r_type' = is_r_type
          /\ regs' = regs
          /\ bus' = bus
          /\ Len(last'.bus) = 1
          /\ last'.bus[1].op = "read"
          /\ last'.bus[1].dev = address
          /\ last'.bus[1].reg = RegisterOf(last'.call)]_vars

C5_Witness == last.call = "time_to_full" /\ last.ok

\* C6: a failed bus transaction ends the operation at once.  In the constructor
\* the failed transaction is the last entry of the history, the constructor has
\* failed with BusError and nothing follows: no bus traffic, no register
\* change, no accessor call.  A failed accessor read is the only transaction of
\* that call and the call returns no value.
C6_BusErrorEndsOperation ==
    /\ [](/\ \A i \in 1..Len(bus) :
               ~bus[i].ok => i = Len(bus) /\ pc = "failed" /\ error = "BusError"
          /\ pc = "failed" => last = NoCall
          /\ ~last.ok => Len(last.bus) = 1 /\ last.result = <<>>)
    /\ [][pc = "failed" => UNCHANGED <<pc, error, bus, regs, last>>]_vars

\* the read of ModelCfg failed after a first poll saw the reset bit set
C6_Witness ==
    /\ pc = "failed"
    /\ error = "BusError"
    /\ ~bus[Len(bus)].ok
    /\ IsRead(bus[Len(bus)], REG_ModelCfg)
    /\ \E i \in 1..Len(bus) : SawSet(bus[i], REG_ModelCfg, 32768)

\* the factor of each quantity, per variant
FactorOf(call, rtype) ==
    CASE call = "state_of_charge" -> <<1, 256>>
      [] call = "time_to_empty" -> <<45, 8>>
      [] call = "time_to_full" -> <<45, 8>>
      [] call = "current" -> IF rtype THEN <<625, 4>> ELSE <<52083, 1000>>
      [] call = "voltage" -> <<5, 64>>
      [] call = "capacity" -> IF rtype THEN <<1, 2>> ELSE <<1667, 10000>>
      [] call = "temperature" -> <<1, 256>>

\* C7: an accessor returns raw * factor, where raw is the word the bus returned,
\* taken as two's-complement for current and temperature and as unsigned for
\* the others, and factor is the table's for the quantity and the variant.
\* Raw -400 of temperature is -1.5625, raw 25600 of state of charge is 100.
C7_AccessorValue ==
    (last.call # "none" /\ last.ok) =>
        LET data == last.bus[1].data
            word == data[1] + 256 * data[2]
            raw == IF last.call \in {"current", "temperature"} /\ word >= 32768
                   THEN word - 65536 ELSE word
            f == FactorOf(last.call, is_r_type)
            value == last.result
        IN  /\ value = <<raw * f[1], f[2]>>
            /\ (last.call = "temperature" /\ word = 65136) =>
                   value[1] * 10000 = (0 - 15625) * value[2]
            /\ (last.call = "state_of_charge" /\ word = 25600) =>
                   value[1] = 100 * value[2]
            /\ (last.call = "capacity" /\ word = 680 /\ is_r_type) =>
                   value[1] = 340 * value[2]

C7_Witness ==
    /\ last.call = "temperature"
    /\ last.ok
    /\ last.bus[1].data = <<112, 254>>

----------------------------------------------------------------------------
(* C9: the codec *)

\* C9: packing a value and unpacking the bytes gives the value back, for "<H"
\* over 0..65535 and for "<h" over -32768..32767; the low byte is written first;
\* and the unsigned and signed readings of the same bytes differ by 65536 when
\* bit 15 is set and are equal otherwise.
C9_CodecRoundTrip ==
    /\ cstage \in {"packed", "unpacked"} =>
         /\ cbytes[1] = cv % 256
         /\ cbytes[2] = (cv % 65536) \div 256
    /\ cstage = "unpacked" =>
         /\ cfmt = "<H" => cdec.u = cv
         /\ cfmt = "<h" => cdec.s = cv
         /\ cbytes[2] >= 128 => cdec.u - cdec.s = 65536
         /\ cbytes[2] < 128 => cdec.u = cdec.s

C9_Witness == cstage = "unpacked" /\ cfmt = "<h" /\ cv = 0 - 400 /\ cdec.u = 65136

----------------------------------------------------------------------------
(* C10: the polling loops *)

\* the IC clears both awaited bits after some time
Responsive == dnrTicks # Stuck /\ refreshTicks # Stuck

\* pack accepts both raw values on every build
PackAccepts ==
    /\ InRange("<H", ToRaw(capacity, CapacityFactor))
    /\ InRange("<h", ToRaw(terminationCurrent, CurrentFactor))

Polled == {<<REG_FStat, 1>>, <<REG_ModelCfg, 32768>>}

\* the number of reads of reg, and of sleeps that follow a read of reg
ReadsOf(reg) == Cardinality({i \in 1..Len(bus) : IsRead(bus[i], reg)})

SleepsAfter(reg) ==
    Cardinality({i \in 2..Len(bus) : bus[i].op = "sleep" /\ IsRead(bus[i - 1], reg)})

LoopDone(reg) ==
    IF reg = REG_FStat
    THEN \E i \in 1..Len(bus) : SawClear(bus[i], REG_FStat, 1)
    ELSE pc = "ready"

SleepDiscipline ==
    /\ \A i \in 1..Len(bus) :
         /\ bus[i].op = "sleep" =>
              /\ bus[i].data = <<10>>
              /\ i > 1
              /\ \E p \in Polled : SawSet(bus[i - 1], p[1], p[2])
         /\ (\E p \in Polled : SawSet(bus[i], p[1], p[2])) =>
              IF i < Len(bus)
              THEN bus[i + 1].op = "sleep"
              ELSE pc \in {"sleep_fstat", "sleep_cfg"}
         /\ (\E p \in Polled : SawClear(bus[i], p[1], p[2])) =>
              (i < Len(bus) => bus[i + 1].op # "sleep")
    /\ \A p \in Polled :
         LoopDone(p[1]) => ReadsOf(p[1]) = SleepsAfter(p[1]) + 1

\* C10: under an IC that clears both awaited bits after some time, the driver
\* sleeps 10 ms exactly once after each poll read that saw the awaited bit set
\* and never after the read that saw it clear, so a finished loop has read its
\* register once more than it has slept; and, when pack accepts the raw values,
\* construction eventually completes unless a bus transaction fails.
C10_PollingCompletes ==
    /\ [](Responsive => SleepDiscipline)
    /\ (Responsive /\ PackAccepts) ~> (pc = "ready" \/ error = "BusError")

\* a construction that completed after sleeping at least twice in each loop
C10_Witness ==
    /\ pc = "ready"
    /\ Responsive
    /\ SleepsAfter(REG_FStat) >= 2
    /\ SleepsAfter(REG_ModelCfg) >= 2

====
